---- MODULE Spec2Model ----
(***************************************************************************)
(* Account endpoints of ficti-bank-backend: the three HTTP operations of   *)
(* app/api/v1/endpoints/accounts.py over the three service functions of    *)
(* app/services/account_service.py.  One request is handled at a time on   *)
(* its own database session: first the service function runs against the   *)
(* session (procedure call, output read, message check, rollback on any    *)
(* exception), then the endpoint maps the service outcome to the HTTP      *)
(* response.                                                               *)
(*                                                                         *)
(* Python str values are sequences of one-character strings, so that       *)
(* lower() and startswith() are computed and not assumed.  A Python value  *)
(* that may be None is a record tagged by kind.                            *)
(***************************************************************************)
EXTENDS Integers, Sequences, FiniteSets, TLC

VARIABLES
    cuentas,    \* rows of the accounts table the listing procedure reads
    pc,         \* "idle" | "svc_done" | "done": position of the request
    op,         \* "none" | "crear" | "listar" | "actualizar"
    req,        \* the request's inputs (cod_usu or nro_cta)
    svc,        \* outcome of the service function: return value or exception
    session,    \* what the service did on the session, in order
    resp        \* the HTTP response: status and body

vars == <<cuentas, pc, op, req, svc, session, resp>>

\* ------------------------------------------------------------ bounds
\* Largest number of rows of the accounts table.
MaxRows == 2

\* ------------------------------------------------- fastapi.status codes
HTTP_200_OK == 200
HTTP_201_CREATED == 201
HTTP_400_BAD_REQUEST == 400
HTTP_404_NOT_FOUND == 404
HTTP_500_INTERNAL_SERVER_ERROR == 500

\* ------------------------------------------------------ Python values
None == [kind |-> "None"]
Str(s) == [kind |-> "str", s |-> s]
List(items) == [kind |-> "list", items |-> items]
EmptyStr == Str(<< >>)

\* Literals of the source, character by character.
EXITO == <<"é", "x", "i", "t", "o">>
ERROR_NO_SE_ENCONTRO == <<"E", "r", "r", "o", "r", ":", " ", "N", "o", " ",
    "s", "e", " ", "e", "n", "c", "o", "n", "t", "r", "ó">>
MSG_500 == <<"O", "c", "u", "r", "r", "i", "ó", " ", "u", "n", " ", "e", "r",
    "r", "o", "r", " ", "i", "n", "t", "e", "r", "n", "o", " ", "d", "e",
    "l", " ", "s", "e", "r", "v", "i", "d", "o", "r", ".">>
MSG_500_LISTAR == <<"O", "c", "u", "r", "r", "i", "ó", " ", "u", "n", " ",
    "e", "r", "r", "o", "r", " ", "i", "n", "t", "e", "r", "n", "o", " ",
    "d", "e", "l", " ", "s", "e", "r", "v", "i", "d", "o", "r", " ", "d",
    "u", "r", "a", "n", "t", "e", " ", "l", "a", " ", "c", "o", "n", "s",
    "u", "l", "t", "a", ".">>
MSG_NO_OUT_SELECT == <<"L", "a", " ", "b", "a", "s", "e", " ", "d", "e", " ",
    "d", "a", "t", "o", "s", " ", "n", "o", " ", "d", "e", "v", "o", "l",
    "v", "i", "ó", " ", "e", "l", " ", "r", "e", "s", "u", "l", "t", "a",
    "d", "o", " ", "d", "e", "l", " ", "O", "U", "T", " ", "S", "E", "L",
    "E", "C", "T", ".">>
MSG_NO_ESTADO == <<"L", "a", " ", "b", "a", "s", "e", " ", "d", "e", " ",
    "d", "a", "t", "o", "s", " ", "n", "o", " ", "d", "e", "v", "o", "l",
    "v", "i", "ó", " ", "e", "l", " ", "m", "e", "n", "s", "a", "j", "e",
    " ", "d", "e", " ", "e", "s", "t", "a", "d", "o", ".">>
MSG_VACIO_PREFIJO == <<"N", "o", " ", "s", "e", " ", "e", "n", "c", "o", "n",
    "t", "r", "a", "r", "o", "n", " ", "c", "u", "e", "n", "t", "a", "s",
    " ", "p", "a", "r", "a", " ", "e", "l", " ", "u", "s", "u", "a", "r",
    "i", "o", ":", " ">>
MSG_OK_PREFIJO == <<"C", "o", "n", "s", "u", "l", "t", "a", " ", "e", "x",
    "i", "t", "o", "s", "a", ".", " ", "S", "e", " ", "e", "n", "c", "o",
    "n", "t", "r", "a", "r", "o", "n", " ">>
MSG_OK_SUFIJO == <<" ", "c", "u", "e", "n", "t", "a", "s", ".">>
MSG_NONE_LOWER == <<"'", "N", "o", "n", "e", "T", "y", "p", "e", "'", " ",
    "o", "b", "j", "e", "c", "t", " ", "h", "a", "s", " ", "n", "o", " ",
    "a", "t", "t", "r", "i", "b", "u", "t", "e", " ", "'", "l", "o", "w",
    "e", "r", "'">>
LIST_OK == <<"L", "I", "S", "T", "-", "O", "K">>
LIST_OK_EMPTY == <<"L", "I", "S", "T", "-", "O", "K", "-", "E", "M", "P",
    "T", "Y">>
SYS_500 == <<"S", "Y", "S", "-", "5", "0", "0">>

\* Messages the stored procedures may leave in @p_Out_Message.
MsgExito == <<"É", "x", "i", "t", "o", ":", " ", "o", "k">>
MsgExitoMinusculas == <<"é", "x", "i", "t", "o">>
MsgExitoMayusculas == <<"É", "X", "I", "T", "O", "!">>
MsgNoEncontrado == <<"E", "r", "r", "o", "r", ":", " ", "N", "o", " ", "s",
    "e", " ", "e", "n", "c", "o", "n", "t", "r", "ó", " ", "X">>
MsgNoEncontradoMinusculas == <<"e", "r", "r", "o", "r", ":", " ", "n", "o",
    " ", "s", "e", " ", "e", "n", "c", "o", "n", "t", "r", "ó">>
MsgErrorSaldo == <<"E", "r", "r", "o", "r", ":", " ", "s", "a", "l", "d",
    "o">>
MsgSinTilde == <<"E", "x", "i", "t", "o">>
MsgCorto == <<"É", "x", "i", "t">>

\* Values of exception text a database driver may raise with.
TextoA == <<"d", "b", " ", "A">>
TextoB == <<"d", "b", " ", "B">>

\* ------------------------------------------------------ str operations
UPPER == <<"A", "B", "C", "D", "E", "F", "G", "H", "I", "J", "K", "L", "M",
    "N", "O", "P", "Q", "R", "S", "T", "U", "V", "W", "X", "Y", "Z",
    "Á", "É", "Í", "Ó", "Ú", "Ñ">>
LOWER == <<"a", "b", "c", "d", "e", "f", "g", "h", "i", "j", "k", "l", "m",
    "n", "o", "p", "q", "r", "s", "t", "u", "v", "w", "x", "y", "z",
    "á", "é", "í", "ó", "ú", "ñ">>

LowerChar(c) ==
    IF \E i \in 1..Len(UPPER) : UPPER[i] = c
    THEN LOWER[CHOOSE i \in 1..Len(UPPER) : UPPER[i] = c]
    ELSE c

\* str.lower()
lower(s) == [i \in 1..Len(s) |-> LowerChar(s[i])]

\* str.startswith(prefix)
startswith(s, prefix) ==
    /\ Len(s) >= Len(prefix)
    /\ SubSeq(s, 1, Len(prefix)) = prefix

Digits == <<"0", "1", "2", "3", "4", "5", "6", "7", "8", "9">>

RECURSIVE NatToStr(_)
\* str(n) of a natural number, as the f-string formats len(...)
NatToStr(n) ==
    IF n < 10 THEN <<Digits[n + 1]>>
    ELSE NatToStr(n \div 10) \o <<Digits[(n % 10) + 1]>>

\* Python truthiness of an Optional[str]
Truthy(v) == v.kind = "str" /\ Len(v.s) > 0

\* --------------------------------------------------------- exceptions
\* An exception: its class, str(e) and (history only, read by no handler)
\* where it was raised.
Exc(cls, msg, origin) == [cls |-> cls, msg |-> msg, origin |-> origin]

\* isinstance(e, ValueError): pydantic's ValidationError is a ValueError.
IsValueError(e) == e.cls \in {"ValueError", "ValidationError"}

\* Exceptions session.execute may raise.
DriverExceptions ==
    {Exc(c, Str(t), "driver") : c \in {"OperationalError", "ValueError"},
                                 t \in {TextoA, TextoB}}

\* ------------------------------------------------- the database's part
Raises(e) == [kind |-> "raise", exc |-> e]
Completed == [kind |-> "ok"]
NoRow == [kind |-> "no_row"]
OutRow(row) == [kind |-> "row", row |-> row]
ResultRows(rows) == [kind |-> "rows", rows |-> rows]

\* Outcomes of executing a CALL statement.
CallOutcomes == {Completed} \cup {Raises(e) : e \in DriverExceptions}

\* Values @p_Out_Message may hold after a CALL (NULL when never set).
OutMessages ==
    {None, EmptyStr} \cup
    {Str(m) : m \in {MsgExito, MsgExitoMinusculas, MsgExitoMayusculas,
                     MsgNoEncontrado, MsgNoEncontradoMinusculas,
                     MsgErrorSaldo, MsgSinTilde, MsgCorto}}

\* Account numbers.
NroCta1 == Str(<<"0", "0", "1">>)
NroCta2 == Str(<<"0", "0", "2">>)
NroCta3 == Str(<<"0", "0", "3">>)

\* Values @p_Out_NroCta may hold after a CALL (NULL when never set): the
\* account number as text, the type APIResponse.codigo declares.
OutNroCtas == {None, NroCta1, NroCta2}

\* User codes.
Usu1 == Str(<<"U", "1">>)
Usu2 == Str(<<"U", "2">>)

\* Outcomes of SELECT @p_Out_NroCta AS NroCta, @p_Out_Message AS Mensaje
\* followed by .first().
ReadOutcomesInsertar ==
    {NoRow} \cup {Raises(e) : e \in DriverExceptions}
    \cup {OutRow([NroCta |-> n, Mensaje |-> m]) :
             n \in OutNroCtas, m \in OutMessages}

\* Outcomes of SELECT @p_Out_Message AS Mensaje followed by .first().
ReadOutcomesActualizar ==
    {NoRow} \cup {Raises(e) : e \in DriverExceptions}
    \cup {OutRow([Mensaje |-> m]) : m \in OutMessages}

\* ------------------------------------------------------ session events
Execute(stmt, params, out) ==
    [ev |-> "execute", stmt |-> stmt, params |-> params, out |-> out]
Rollback == [ev |-> "rollback"]

\* ---------------------------------------------------- service outcomes
Return(value, log) == [kind |-> "return", value |-> value, log |-> log]
Raise(e, log) == [kind |-> "raise", exc |-> e, log |-> log]

\* Mutant: the handler rolls back only for exceptions that are not the
\* business ValueError.
rollback_unless_value_error(outcome) ==
    IF outcome.kind = "raise" /\ ~IsValueError(outcome.exc)
    THEN [outcome EXCEPT !.log = Append(@, Rollback)]
    ELSE outcome

\* except Exception as e: session.rollback(); raise e
rollback_and_reraise(outcome) ==
    IF outcome.kind = "raise"
    THEN [outcome EXCEPT !.log = Append(@, Rollback)]
    ELSE outcome

\* Mutant: the prefix test without lower().
check_output_message_case_sensitive(output_message, value, log) ==
    IF output_message.kind = "None"
    THEN Raise(Exc("AttributeError", Str(MSG_NONE_LOWER), "null_message"), log)
    ELSE IF ~startswith(output_message.s, EXITO)
    THEN Raise(Exc("ValueError", output_message, "business"), log)
    ELSE Return(value, log)

\* if not output_message.lower().startswith('éxito'): raise ValueError(...)
\* None has no lower(): AttributeError.
check_output_message(output_message, value, log) ==
    IF output_message.kind = "None"
    THEN Raise(Exc("AttributeError", Str(MSG_NONE_LOWER), "null_message"), log)
    ELSE IF ~startswith(lower(output_message.s), EXITO)
    THEN Raise(Exc("ValueError", output_message, "business"), log)
    ELSE Return(value, log)

\* Mutant: the output read is issued although the CALL raised.
insertar_nueva_cuenta_sp_reads_after_failure(callOut, readOut) ==
    LET call == Execute("CALL sp_InsertarNuevaCuenta", None, callOut)
        read == Execute("SELECT @p_Out_NroCta, @p_Out_Message", None, readOut)
    IN rollback_and_reraise(
        IF callOut.kind = "raise" THEN Raise(callOut.exc, <<call, read>>)
        ELSE IF readOut.kind = "raise" THEN Raise(readOut.exc, <<call, read>>)
        ELSE IF readOut.kind = "no_row"
        THEN Raise(Exc("Exception", Str(MSG_NO_OUT_SELECT), "missing_row"),
                   <<call, read>>)
        ELSE check_output_message(
                 readOut.row.Mensaje,
                 [NroCta |-> readOut.row.NroCta,
                  MensajeSP |-> readOut.row.Mensaje],
                 <<call, read>>))

insertar_nueva_cuenta_sp(callOut, readOut) ==
    LET call == Execute("CALL sp_InsertarNuevaCuenta", None, callOut)
        read == Execute("SELECT @p_Out_NroCta, @p_Out_Message", None, readOut)
    IN rollback_and_reraise(
        IF callOut.kind = "raise" THEN Raise(callOut.exc, <<call>>)
        ELSE IF readOut.kind = "raise" THEN Raise(readOut.exc, <<call, read>>)
        ELSE IF readOut.kind = "no_row"
        THEN Raise(Exc("Exception", Str(MSG_NO_OUT_SELECT), "missing_row"),
                   <<call, read>>)
        ELSE check_output_message(
                 readOut.row.Mensaje,
                 [NroCta |-> readOut.row.NroCta,
                  MensajeSP |-> readOut.row.Mensaje],
                 <<call, read>>))

\* ------------------------------------------------- the accounts table
Row1 == [NroCta |-> NroCta1, CodUsu |-> Usu1, Estado |-> "A"]
Row2 == [NroCta |-> NroCta2, CodUsu |-> Usu2, Estado |-> "B"]
\* A row the result set delivers without the Estado column.
RowSinEstado == [NroCta |-> NroCta3, CodUsu |-> Usu1]

TableRows == {Row1, Row2, RowSinEstado}

RECURSIVE SeqsUpTo(_, _)
\* All sequences over S of length at most n.
SeqsUpTo(S, n) ==
    IF n = 0 THEN {<< >>}
    ELSE LET shorter == SeqsUpTo(S, n - 1)
         IN shorter \cup {Append(s, x) : s \in shorter, x \in S}

\* CALL sp_ListarCuentas(:p_CodUsu): every row when the parameter is NULL,
\* the user's rows otherwise.
sp_ListarCuentas(tabla, p_CodUsu) ==
    IF p_CodUsu.kind = "None" THEN tabla
    ELSE SelectSeq(tabla, LAMBDA r : r.CodUsu = p_CodUsu)

\* Fields of CuentaDetailsDTO.
DTOFields == {"NroCta", "CodUsu", "Estado"}

\* CuentaDetailsDTO.model_validate(row) succeeds
model_validate_ok(row) == DTOFields \subseteq DOMAIN row

\* CuentaDetailsDTO.model_validate(row)
model_validate(row) == [f \in DTOFields |-> row[f]]

\* Values of the cod_usu query parameter.
CodUsuInputs == {None, EmptyStr, Usu1, Usu2}

\* Faults of the listing CALL: none, or an exception of the driver.
NoFault == [kind |-> "ok"]
CallFaults == {NoFault} \cup {Raises(e) : e \in DriverExceptions}

\* Mutant: only None is cleaned, the empty string is bound as it is.
listar_cuentas_sp_binds_empty(cod_usu_input, tabla, fault) ==
    LET p_cod_usu == cod_usu_input
        callOut ==
            IF fault.kind = "raise" THEN fault
            ELSE ResultRows(sp_ListarCuentas(tabla, p_cod_usu))
        call == Execute("CALL sp_ListarCuentas", p_cod_usu, callOut)
    IN rollback_and_reraise(
        IF callOut.kind = "raise" THEN Raise(callOut.exc, <<call>>)
        ELSE IF \E i \in 1..Len(callOut.rows) :
                    ~model_validate_ok(callOut.rows[i])
        THEN Raise(Exc("ValidationError", Str(TextoA), "dto_validation"),
                   <<call>>)
        ELSE Return([i \in 1..Len(callOut.rows) |->
                        model_validate(callOut.rows[i])],
                    <<call>>))

listar_cuentas_sp(cod_usu_input, tabla, fault) ==
    LET p_cod_usu ==
            IF Truthy(cod_usu_input) /\ cod_usu_input # EmptyStr
            THEN cod_usu_input ELSE None
        callOut ==
            IF fault.kind = "raise" THEN fault
            ELSE ResultRows(sp_ListarCuentas(tabla, p_cod_usu))
        call == Execute("CALL sp_ListarCuentas", p_cod_usu, callOut)
    IN rollback_and_reraise(
        IF callOut.kind = "raise" THEN Raise(callOut.exc, <<call>>)
        ELSE IF \E i \in 1..Len(callOut.rows) :
                    ~model_validate_ok(callOut.rows[i])
        THEN Raise(Exc("ValidationError", Str(TextoA), "dto_validation"),
                   <<call>>)
        ELSE Return([i \in 1..Len(callOut.rows) |->
                        model_validate(callOut.rows[i])],
                    <<call>>))

\* Values of nro_cta in a status-update request.
NroCtaInputs == {NroCta1, NroCta2}

actualizar_estado_cuenta_sp(nro_cta, callOut, readOut) ==
    LET call == Execute("CALL sp_ActualizarEstadoCuenta", nro_cta, callOut)
        read == Execute("SELECT @p_Out_Message", None, readOut)
    IN rollback_and_reraise(
        IF callOut.kind = "raise" THEN Raise(callOut.exc, <<call>>)
        ELSE IF readOut.kind = "raise" THEN Raise(readOut.exc, <<call, read>>)
        ELSE IF readOut.kind = "no_row"
        THEN Raise(Exc("Exception", Str(MSG_NO_ESTADO), "missing_row"),
                   <<call, read>>)
        ELSE check_output_message(
                 readOut.row.Mensaje,
                 [NroCta |-> nro_cta, MensajeSP |-> readOut.row.Mensaje],
                 <<call, read>>))

\* --------------------------------------------------------- the envelope
\* APIResponse(...): the arguments built below are of the declared types
\* (mensaje a str, codigo a str or None, result a list or None; NroCta is
\* text or NULL), so the model's validation accepts them.
APIResponse(mensaje, codigo, status_code, result) ==
    [mensaje |-> mensaje, codigo |-> codigo,
     status_code |-> status_code, result |-> result]

\* A returned APIResponse under response_model=APIResponse.
Response(status, envelope) == [status |-> status, body |-> envelope]

\* raise HTTPException(status_code, detail): the detail is sent under the
\* key "detail".
HTTPException(status_code, detail) ==
    [status |-> status_code, body |-> [detail |-> detail]]

NoResponse == [status |-> 0]

crear_nueva_cuenta(outcome) ==
    IF outcome.kind = "return"
    THEN Response(HTTP_201_CREATED,
                  APIResponse(outcome.value.MensajeSP, outcome.value.NroCta,
                              HTTP_201_CREATED, None))
    ELSE IF IsValueError(outcome.exc)
    THEN HTTPException(HTTP_400_BAD_REQUEST,
                       APIResponse(outcome.exc.msg, EmptyStr,
                                   HTTP_400_BAD_REQUEST, None))
    ELSE HTTPException(HTTP_500_INTERNAL_SERVER_ERROR,
                       APIResponse(Str(MSG_500), EmptyStr,
                                   HTTP_500_INTERNAL_SERVER_ERROR, None))

\* Mutant: an empty list is reported as empty whatever the filter.
listar_cuentas_empty_any_filter(cod_usu, outcome) ==
    IF outcome.kind = "return"
    THEN IF Len(outcome.value) = 0
         THEN Response(HTTP_200_OK,
                       APIResponse(Str(MSG_VACIO_PREFIJO \o <<".">>),
                                   Str(LIST_OK_EMPTY), HTTP_200_OK,
                                   List(<< >>)))
         ELSE Response(HTTP_200_OK,
                       APIResponse(Str(MSG_OK_PREFIJO
                                       \o NatToStr(Len(outcome.value))
                                       \o MSG_OK_SUFIJO),
                                   Str(LIST_OK), HTTP_200_OK,
                                   List(outcome.value)))
    ELSE HTTPException(HTTP_500_INTERNAL_SERVER_ERROR,
                       APIResponse(Str(MSG_500_LISTAR), Str(SYS_500),
                                   HTTP_500_INTERNAL_SERVER_ERROR, None))

listar_cuentas(cod_usu, outcome) ==
    IF outcome.kind = "return"
    THEN IF /\ Len(outcome.value) = 0
            /\ cod_usu # None
            /\ cod_usu # EmptyStr
         THEN Response(HTTP_200_OK,
                       APIResponse(Str(MSG_VACIO_PREFIJO \o cod_usu.s \o <<".">>),
                                   Str(LIST_OK_EMPTY), HTTP_200_OK,
                                   List(<< >>)))
         ELSE Response(HTTP_200_OK,
                       APIResponse(Str(MSG_OK_PREFIJO
                                       \o NatToStr(Len(outcome.value))
                                       \o MSG_OK_SUFIJO),
                                   Str(LIST_OK), HTTP_200_OK,
                                   List(outcome.value)))
    ELSE HTTPException(HTTP_500_INTERNAL_SERVER_ERROR,
                       APIResponse(Str(MSG_500_LISTAR), Str(SYS_500),
                                   HTTP_500_INTERNAL_SERVER_ERROR, None))

\* Mutant: the success envelope carries the empty code of the error paths.
actualizar_estado_codigo_vacio(outcome) ==
    IF outcome.kind = "return"
    THEN Response(HTTP_200_OK,
                  APIResponse(outcome.value.MensajeSP, EmptyStr,
                              HTTP_200_OK, None))
    ELSE IF IsValueError(outcome.exc)
    THEN LET error_message == outcome.exc.msg
             error_code ==
                 IF startswith(error_message.s, ERROR_NO_SE_ENCONTRO)
                 THEN HTTP_404_NOT_FOUND ELSE HTTP_400_BAD_REQUEST
         IN HTTPException(error_code,
                          APIResponse(error_message, EmptyStr, error_code,
                                      None))
    ELSE HTTPException(HTTP_500_INTERNAL_SERVER_ERROR,
                       APIResponse(Str(MSG_500), EmptyStr,
                                   HTTP_500_INTERNAL_SERVER_ERROR, None))

actualizar_estado(outcome) ==
    IF outcome.kind = "return"
    THEN Response(HTTP_200_OK,
                  APIResponse(outcome.value.MensajeSP, outcome.value.NroCta,
                              HTTP_200_OK, None))
    ELSE IF IsValueError(outcome.exc)
    THEN LET error_message == outcome.exc.msg
             error_code ==
                 IF startswith(error_message.s, ERROR_NO_SE_ENCONTRO)
                 THEN HTTP_404_NOT_FOUND ELSE HTTP_400_BAD_REQUEST
         IN HTTPException(error_code,
                          APIResponse(error_message, EmptyStr, error_code,
                                      None))
    ELSE HTTPException(HTTP_500_INTERNAL_SERVER_ERROR,
                       APIResponse(Str(MSG_500), EmptyStr,
                                   HTTP_500_INTERNAL_SERVER_ERROR, None))

\* ------------------------------------------------------------- actions
NoRequest == [kind |-> "none"]
NoOutcome == [kind |-> "none"]

Init ==
    /\ cuentas \in SeqsUpTo(TableRows, MaxRows)
    /\ pc = "idle"
    /\ op = "none"
    /\ req = NoRequest
    /\ svc = NoOutcome
    /\ session = << >>
    /\ resp = NoResponse

Outcome(o) ==
    IF o.kind = "return" THEN [kind |-> "return", value |-> o.value]
    ELSE [kind |-> "raise", exc |-> o.exc]

CrearCuentaService ==
    /\ pc \in {"idle", "done"}
    /\ \E callOut \in CallOutcomes, readOut \in ReadOutcomesInsertar :
          LET o == insertar_nueva_cuenta_sp(callOut, readOut) IN
          /\ svc' = Outcome(o)
          /\ session' = o.log
    /\ op' = "crear"
    /\ req' = NoRequest
    /\ resp' = NoResponse
    /\ pc' = "svc_done"
    /\ UNCHANGED cuentas

CrearCuentaResponse ==
    /\ pc = "svc_done"
    /\ op = "crear"
    /\ resp' = crear_nueva_cuenta(svc)
    /\ pc' = "done"
    /\ UNCHANGED <<cuentas, op, req, svc, session>>

ListarCuentasService ==
    /\ pc \in {"idle", "done"}
    /\ \E cod_usu \in CodUsuInputs, fault \in CallFaults :
          LET o == listar_cuentas_sp(cod_usu, cuentas, fault) IN
          /\ req' = [cod_usu |-> cod_usu]
          /\ svc' = Outcome(o)
          /\ session' = o.log
    /\ op' = "listar"
    /\ resp' = NoResponse
    /\ pc' = "svc_done"
    /\ UNCHANGED cuentas

ListarCuentasResponse ==
    /\ pc = "svc_done"
    /\ op = "listar"
    /\ resp' = listar_cuentas(req.cod_usu, svc)
    /\ pc' = "done"
    /\ UNCHANGED <<cuentas, op, req, svc, session>>

ActualizarEstadoService ==
    /\ pc \in {"idle", "done"}
    /\ \E nro_cta \in NroCtaInputs, callOut \in CallOutcomes,
          readOut \in ReadOutcomesActualizar :
          LET o == actualizar_estado_cuenta_sp(nro_cta, callOut, readOut) IN
          /\ req' = [nro_cta |-> nro_cta]
          /\ svc' = Outcome(o)
          /\ session' = o.log
    /\ op' = "actualizar"
    /\ resp' = NoResponse
    /\ pc' = "svc_done"
    /\ UNCHANGED cuentas

ActualizarEstadoResponse ==
    /\ pc = "svc_done"
    /\ op = "actualizar"
    /\ resp' = actualizar_estado(svc)
    /\ pc' = "done"
    /\ UNCHANGED <<cuentas, op, req, svc, session>>

Next ==
    \/ CrearCuentaService
    \/ CrearCuentaResponse
    \/ ListarCuentasService
    \/ ListarCuentasResponse
    \/ ActualizarEstadoService
    \/ ActualizarEstadoResponse

Spec == Init /\ [][Next]_vars

\* ------------------------------------------------------------- claims
\* The request of operation o has been answered.
Done(o) == pc = "done" /\ op = o

\* The service function of the current request has finished.
ServiceFinished == pc \in {"svc_done", "done"}

\* The envelope of the response, at the top level of the body or under
\* "detail".
Envelope ==
    IF "detail" \in DOMAIN resp.body THEN resp.body.detail ELSE resp.body

\* The output read of the current request delivered a row.
HasReply ==
    /\ Len(session) >= 2
    /\ session[2].ev = "execute"
    /\ session[2].out.kind = "row"

\* The procedure's reply message, as the output read delivered it.
Reply == session[2].out.row.Mensaje

\* The text begins with "éxito", each letter in either case.
BeginsWithExitoAnyCase(s) ==
    /\ Len(s) >= 5
    /\ s[1] \in {"é", "É"}
    /\ s[2] \in {"x", "X"}
    /\ s[3] \in {"i", "I"}
    /\ s[4] \in {"t", "T"}
    /\ s[5] \in {"o", "O"}

IsSuccessReply(m) == m.kind = "str" /\ BeginsWithExitoAnyCase(m.s)

\* The text begins with "Error: No se encontró", letter for letter.
BeginsWithNoSeEncontro(s) ==
    /\ Len(s) >= Len(ERROR_NO_SE_ENCONTRO)
    /\ \A i \in 1..Len(ERROR_NO_SE_ENCONTRO) : s[i] = ERROR_NO_SE_ENCONTRO[i]

EnvelopeFields == {"mensaje", "codigo", "status_code", "result"}

\* The statements the service executed on the session, in order.
Executes == SelectSeq(session, LAMBDA e : e.ev = "execute")

RollbackCount ==
    Cardinality({i \in 1..Len(session) : session[i].ev = "rollback"})

ProcedureOf(o) ==
    CASE o = "crear" -> "CALL sp_InsertarNuevaCuenta"
      [] o = "listar" -> "CALL sp_ListarCuentas"
      [] o = "actualizar" -> "CALL sp_ActualizarEstadoCuenta"

OutputReadOf(o) ==
    CASE o = "crear" -> "SELECT @p_Out_NroCta, @p_Out_Message"
      [] o = "actualizar" -> "SELECT @p_Out_Message"
      [] o = "listar" -> "none"

\* C1: a create request whose reply message begins with "Éxito" in any
\* letter case is answered 201 with the procedure's message as mensaje, the
\* NroCta output as codigo and status_code 201.
C1_CreateSuccessIs201 ==
    (Done("crear") /\ HasReply /\ IsSuccessReply(Reply)) =>
        /\ resp.status = 201
        /\ Envelope.mensaje = Reply
        /\ Envelope.codigo = session[2].out.row.NroCta
        /\ Envelope.status_code = 201

\* C1 witness: "ÉXITO!" with account number 001 was answered 201.
C1_Witness ==
    /\ Done("crear")
    /\ HasReply
    /\ Reply = Str(MsgExitoMayusculas)
    /\ resp.status = 201
    /\ Envelope.codigo = NroCta1

\* C2: a create request whose reply does not begin with "éxito", whatever
\* value the output read delivered (NULL included), is answered 400 with
\* the reply as mensaje.
C2_CreateNonSuccessIs400 ==
    (Done("crear") /\ HasReply /\ ~IsSuccessReply(Reply)) =>
        /\ resp.status = 400
        /\ Envelope.mensaje = Reply

\* C3: a status update whose reply is not a success message is answered
\* 404 when the reply begins with "Error: No se encontró" and 400
\* otherwise, with the reply as mensaje and status_code equal to the HTTP
\* status.
C3_UpdateNonSuccessIs404Or400 ==
    (Done("actualizar") /\ HasReply /\ ~IsSuccessReply(Reply)) =>
        /\ resp.status =
               IF Reply.kind = "str" /\ BeginsWithNoSeEncontro(Reply.s)
               THEN 404 ELSE 400
        /\ Envelope.mensaje = Reply
        /\ Envelope.status_code = resp.status

\* C4: an exception that is not a declared business error is answered 500
\* with the endpoint's fixed envelope, whatever the exception's class and
\* text.
C4_UnexpectedExceptionIs500 ==
    (pc = "done" /\ svc.kind = "raise" /\ svc.exc.origin # "business") =>
        /\ resp.status = 500
        /\ Envelope =
               IF op = "listar"
               THEN APIResponse(Str(MSG_500_LISTAR), Str(SYS_500), 500, None)
               ELSE APIResponse(Str(MSG_500), EmptyStr, 500, None)

\* C5: a listing that did not fail is answered 200; with a filter that is
\* neither null nor empty and zero rows from the procedure the codigo is
\* "LIST-OK-EMPTY" and the result the empty list, in every other case the
\* codigo is "LIST-OK" and the result the procedure's rows, mapped.
C5_ListEmptyWithFilter ==
    (Done("listar") /\ session[1].out.kind = "rows" /\ svc.kind = "return") =>
        LET rows == session[1].out.rows IN
        /\ resp.status = 200
        /\ Envelope.status_code = 200
        /\ IF req.cod_usu \notin {None, EmptyStr} /\ Len(rows) = 0
           THEN /\ Envelope.codigo = Str(LIST_OK_EMPTY)
                /\ Envelope.result = List(<< >>)
           ELSE /\ Envelope.codigo = Str(LIST_OK)
                /\ Envelope.result.kind = "list"
                /\ Len(Envelope.result.items) = Len(rows)
                /\ \A i \in 1..Len(rows) : \A f \in DTOFields :
                       Envelope.result.items[i][f] = rows[i][f]

\* C5 witness: user U2 has no account and the listing for U2 was answered
\* LIST-OK-EMPTY.
C5_Witness ==
    /\ Done("listar")
    /\ req.cod_usu = Usu2
    /\ svc.kind = "return"
    /\ session[1].out.rows = << >>
    /\ Envelope.codigo = Str(LIST_OK_EMPTY)

\* C6: a listing with the empty string as filter binds NULL as the
\* procedure's parameter and is answered exactly as the listing without a
\* filter is on the same table and under the same fault.
C6_EmptyFilterIsNoFilter ==
    (Done("listar") /\ req.cod_usu = EmptyStr) =>
        LET fault == IF session[1].out.kind = "raise"
                     THEN session[1].out ELSE NoFault
            unfiltered == listar_cuentas_sp(None, cuentas, fault)
        IN /\ session[1].params = None
           /\ unfiltered.log[1].params = None
           /\ session = unfiltered.log
           /\ resp = listar_cuentas(None, Outcome(unfiltered))

\* C6 witness: the empty filter on an empty table was answered LIST-OK.
C6_Witness ==
    /\ Done("listar")
    /\ req.cod_usu = EmptyStr
    /\ cuentas = << >>
    /\ svc.kind = "return"
    /\ Envelope.codigo = Str(LIST_OK)

\* C7: the body of every response is the envelope itself, with exactly the
\* fields mensaje, codigo, status_code and result at the top level, and its
\* status_code is the HTTP status.
C7_BodyIsEnvelope ==
    pc = "done" =>
        /\ DOMAIN resp.body = EnvelopeFields
        /\ resp.body.status_code = resp.status

\* C8: a status update whose reply begins with "éxito" in any letter case is
\* answered 200 with the procedure's message as mensaje and the request's
\* account number as codigo.
C8_UpdateSuccessIs200 ==
    (Done("actualizar") /\ HasReply /\ IsSuccessReply(Reply)) =>
        /\ resp.status = 200
        /\ Envelope.mensaje = Reply
        /\ Envelope.codigo = req.nro_cta
        /\ Envelope.status_code = 200

\* C8 witness: the update of account 002 replied "éxito" and was answered
\* 200 with codigo 002.
C8_Witness ==
    /\ Done("actualizar")
    /\ HasReply
    /\ Reply = Str(MsgExitoMinusculas)
    /\ req.nro_cta = NroCta2
    /\ resp.status = 200
    /\ Envelope.codigo = NroCta2

\* C9: when a service function has finished, the session was rolled back
\* once if it raised and not at all if it returned; the rollback is the
\* last thing done on the session, the exception a statement raised is the
\* one that propagates, and nothing was committed.
C9_RollbackIffRaise ==
    ServiceFinished =>
        /\ svc.kind = "raise" => RollbackCount = 1
        /\ svc.kind = "return" => RollbackCount = 0
        /\ svc.kind = "raise" => session[Len(session)] = Rollback
        /\ \A i \in 1..Len(session) :
               (session[i].ev = "execute" /\ session[i].out.kind = "raise")
                   => (svc.kind = "raise" /\ svc.exc = session[i].out.exc)
        /\ (HasReply /\ ~IsSuccessReply(Reply) /\ Reply.kind = "str")
               => (svc.kind = "raise" /\ svc.exc.msg = Reply)
        /\ \A i \in 1..Len(session) : session[i].ev # "commit"

\* C9 witness: the update service raised the business error and has rolled
\* back, and the endpoint has not answered yet.
C9_Witness ==
    /\ pc = "svc_done"
    /\ op = "actualizar"
    /\ svc.kind = "raise"
    /\ svc.exc.origin = "business"
    /\ RollbackCount = 1
    /\ resp = NoResponse

\* C10: a request executes the procedure call first and at most the output
\* read after it; the read follows only a call that completed, nothing is
\* executed after a statement that raised or after the rollback, and a
\* listing executes the call alone.
C10_CallThenRead ==
    ServiceFinished =>
        LET x == Executes IN
        /\ Len(x) \in 1..2
        /\ x[1].stmt = ProcedureOf(op)
        /\ Len(x) = 2 =>
               /\ x[2].stmt = OutputReadOf(op)
               /\ x[1].out.kind = "ok"
        /\ op = "listar" => Len(x) = 1
        /\ \A i \in 1..Len(session) :
               (session[i].ev = "execute" /\ session[i].out.kind = "raise")
                   => (i + 1 = Len(session) /\ session[i + 1] = Rollback)
        /\ \A i \in 1..Len(session) :
               session[i].ev = "rollback" => i = Len(session)

\* C10 witness: a create request whose call completed and whose output
\* read raised executed two statements and no more.
C10_Witness ==
    /\ Done("crear")
    /\ Len(Executes) = 2
    /\ Executes[1].out.kind = "ok"
    /\ Executes[2].out.kind = "raise"
====
